---- MODULE Spec2Model ----
(***************************************************************************)
(* A model of UniversalArchiveInterface.ArchiveReader                       *)
(* (src/UniversalArchiveInterface/__init__.py): one Reader object, from    *)
(* before its construction to after its destruction, over one archive that *)
(* the environment supplies.  The codec libraries (zipfile, rarfile,       *)
(* py7zlib), the classifier (magic) and tempfile are collaborators; they   *)
(* are modelled by what they return or raise at each call site.            *)
(*                                                                         *)
(* A member name is a sequence of character codes, so that sorting,        *)
(* endswith("/") and replace("\\", "/") are computed, not assumed.         *)
(***************************************************************************)
EXTENDS Integers, Sequences, FiniteSets, TLC

\* ------------------------------------------------------------------ bounds
\* Largest number of members in the archive the environment supplies.
MaxMembers == 2
\* Largest number of explicit close() calls on one Reader.
MaxCloses == 2

\* --------------------------------------------------------- character codes
Slash == 47
Backslash == 92

\* The member names the environment may report: "a", "b", "a/", "a\b", "a/b".
Names == { <<97>>, <<98>>, <<97, Slash>>, <<97, Backslash, 98>>, <<97, Slash, 98>> }

\* What a member's stored data is like.
\*   ok        : decodes, checksum matches
\*   crc       : decodes, checksum does not match
\*   dataerr   : the compressed stream does not decode
\*   encrypted : needs a password
Healths == {"ok", "crc", "dataerr", "encrypted"}

\* What the classifier sees in a file or a buffer.
Kinds == {"rar", "zip", "7z", "zipoctet", "text"}

Member == [name : Names, isdir : BOOLEAN, health : Healths]

RECURSIVE SeqsUpTo(_, _)
SeqsUpTo(S, n) ==
    IF n = 0 THEN { <<>> }
    ELSE LET shorter == SeqsUpTo(S, n - 1)
         IN  shorter \cup { Append(s, x) : s \in { t \in shorter : Len(t) = n - 1 }, x \in S }

VARIABLES
    arch,        \* the environment: the arguments and the archive behind them
    pc,          \* "new" | "live" | "failed" | "dead"
    archPath,    \* self.archPath: "none" | "empty" | "given" | "temp"
    tempfile,    \* self.tempfile: "none" | "open" | "closed"
    tmpCreated,  \* how many temporary files this Reader created
    tmpExists,   \* whether a temporary file of this Reader exists on disk
    fp,          \* self.fp: "none" | "open" | "closed"
    archType,    \* self.archType: "unset" | "rar" | "zip" | "7z"
    archHandle,  \* self.archHandle: "unset" | "open" | "closed"
    filenames,   \* the codec object's own list of member names
    usedPath,    \* whether the constructor read the file at archPath
    lastOp,      \* the last operation the caller ran
    arg,         \* its argument (open, read), else <<>>
    raised,      \* the exception that reached the caller, "none" if it returned
    ret,         \* what it returned
    gen,         \* the generator __iter__ returned
    yielded,     \* the (name, stream) pairs that generator has yielded
    closes       \* explicit close() calls so far

vars == << arch, pc, archPath, tempfile, tmpCreated, tmpExists, fp, archType,
           archHandle, filenames, usedPath, lastOp, arg, raised, ret, gen,
           yielded, closes >>

\* ----------------------------------------------------------------- strings
\* str.endswith("/")
EndsWithSlash(name) == Len(name) > 0 /\ name[Len(name)] = Slash

\* str.replace("\\", "/")
ReplaceBackslash(name) == [ i \in 1..Len(name) |-> IF name[i] = Backslash THEN Slash ELSE name[i] ]

\* Python's str < str: lexicographic on code points, a proper prefix first.
RECURSIVE LexLess(_, _)
LexLess(s, t) ==
    IF t = <<>> THEN FALSE
    ELSE IF s = <<>> THEN TRUE
    ELSE IF Head(s) < Head(t) THEN TRUE
    ELSE IF Head(s) > Head(t) THEN FALSE
    ELSE LexLess(Tail(s), Tail(t))

\* Insert x into the sorted sequence s, after the elements equal to it.
RECURSIVE Insert(_, _)
Insert(x, s) ==
    IF s = <<>> THEN << x >>
    ELSE IF LexLess(x, Head(s)) THEN << x >> \o s
    ELSE << Head(s) >> \o Insert(x, Tail(s))

\* list.sort() on names.
RECURSIVE SortNames(_)
SortNames(s) == IF s = <<>> THEN <<>> ELSE Insert(s[Len(s)], SortNames(SubSeq(s, 1, Len(s) - 1)))

\* list(set) followed by sort(): the elements of a set in ascending order.
RECURSIVE SortedOfSet(_)
SortedOfSet(S) ==
    IF S = {} THEN <<>>
    ELSE LET least == CHOOSE x \in S : \A y \in S \ {x} : LexLess(x, y)
         IN  << least >> \o SortedOfSet(S \ {least})

\* ----------------------------------------------------------- collaborators
\* magic.from_buffer / magic.from_file: (mime, plain description).
Magic(kind) ==
    CASE kind = "rar"      -> [mime |-> "application/x-rar", plain |-> "RAR archive data"]
      [] kind = "zip"      -> [mime |-> "application/zip", plain |-> "Zip archive data"]
      [] kind = "7z"       -> [mime |-> "application/x-7z-compressed", plain |-> "7-zip archive data"]
      [] kind = "zipoctet" -> [mime |-> "application/octet-stream", plain |-> "Zip archive data"]
      [] OTHER             -> [mime |-> "text/plain", plain |-> "ASCII text"]

\* namelist() / getnames(): the raw names, in the container's order.
RawNames(members) == [ i \in 1..Len(members) |-> members[i].name ]

\* Whether the archive has a member of that name.
HasMember(members, name) == \E i \in 1..Len(members) : members[i].name = name

\* The libraries keep a name -> member dictionary filled in container order:
\* of two members with one name, the later one is found.
Lookup(members, name) ==
    members[CHOOSE i \in 1..Len(members) :
                /\ members[i].name = name
                /\ \A j \in (i + 1)..Len(members) : members[j].name # name]

\* ------------------------------------------------------------- error layer
\* The decorator logErrors: the exception the caller sees when the decorated
\* call raises exc inside the decorator's try block.
LogErrors(exc) ==
    CASE exc = "none"                     -> "none"
      [] exc = "TypeError"                -> "TypeError"
      [] exc = "CorruptArchive"           -> "CorruptArchive"
      [] exc = "NotAnArchive"             -> "NotAnArchive"
      [] exc = "rarfile.PasswordRequired" -> "PasswordRequired"
      [] exc = "zlib.error"               -> "PasswordRequired"
      [] exc \in {"KeyboardInterrupt", "SystemExit", "GeneratorExit"} -> exc
      [] OTHER                            -> "ArchiveError"

\* ------------------------------------------------------------ construction
\* An argument is used when it is truthy: given and not empty.
Truthy(x) == x = "given"

\* The same choice with the path tested before the buffer.
SourcePathFirst(a) ==
    IF Truthy(a.path) THEN "path" ELSE IF Truthy(a.buf) THEN "buf" ELSE "neither"

\* Which argument the constructor classifies and opens: "if fileContents",
\* "elif archPath", else neither.
Source(a) ==
    IF Truthy(a.buf) THEN "buf" ELSE IF Truthy(a.path) THEN "path" ELSE "neither"

\* ArchiveReader.__init__: the fields it leaves and the exception it raises.
InitBody(a) ==
    LET useBuf  == Source(a) = "buf"
        usePath == Source(a) = "path"
        base    == [exc |-> "none", archPath |-> a.path, tempfile |-> "none",
                    created |-> 0, fp |-> "none", archType |-> "unset",
                    archHandle |-> "unset", usedPath |-> usePath]
    IN  IF ~useBuf /\ ~usePath THEN [base EXCEPT !.exc = "NotAnArchive"]
        ELSE IF usePath /\ ~a.fileReadable THEN [base EXCEPT !.exc = "IOError"]
        ELSE
          LET m == Magic(IF useBuf THEN a.bufKind ELSE a.fileKind)
          IN  CASE m.mime = "application/x-rar" ->
                     LET b == IF useBuf
                              THEN [base EXCEPT !.tempfile = "open", !.created = 1,
                                                !.archPath = "temp"]
                              ELSE base
                     IN  IF a.wellFormed
                         THEN [b EXCEPT !.archHandle = "open", !.archType = "rar"]
                         ELSE [b EXCEPT !.exc = "rarfile.BadRarFile"]
                [] m.mime = "application/zip" ->
                     IF a.wellFormed
                     THEN [base EXCEPT !.archHandle = "open", !.archType = "zip"]
                     ELSE [base EXCEPT !.exc = "CorruptArchive"]
                [] m.mime = "application/x-7z-compressed" ->
                     LET b == IF useBuf THEN base ELSE [base EXCEPT !.fp = "open"]
                     IN  IF a.wellFormed
                         THEN [b EXCEPT !.archHandle = "open", !.archType = "7z"]
                         ELSE [b EXCEPT !.exc = "CorruptArchive"]
                [] m.mime = "application/octet-stream" /\ m.plain = "Zip archive data" ->
                     IF a.wellFormed
                     THEN [base EXCEPT !.archHandle = "open", !.archType = "zip"]
                     ELSE [base EXCEPT !.exc = "CorruptArchive"]
                [] OTHER -> [base EXCEPT !.exc = "NotAnArchive"]

\* ---------------------------------------------------------------- teardown
\* archHandle.close() of the codec object: ZipFile and RarFile close any
\* number of times; Archive7z has no close method.
LibClose(t, h) ==
    IF t = "7z" THEN [exc |-> "AttributeError", archHandle |-> h]
    ELSE [exc |-> "none", archHandle |-> "closed"]

\* The same close() without the test on archType.
CloseBodyNoTypeTest(t, h, f) ==
    IF t = "unset" THEN [exc |-> "AttributeError", archHandle |-> h, fp |-> f]
    ELSE LET c == LibClose(t, h)
         IN  IF c.exc # "none" THEN [exc |-> c.exc, archHandle |-> c.archHandle, fp |-> f]
             ELSE [exc |-> "none", archHandle |-> c.archHandle,
                   fp |-> IF f # "none" THEN "closed" ELSE f]

\* ArchiveReader.close on a Reader with archType t, archHandle h and fp f.
\* Reading self.archType before __init__ set it raises AttributeError.
CloseBody(t, h, f) ==
    IF t = "unset" THEN [exc |-> "AttributeError", archHandle |-> h, fp |-> f]
    ELSE LET c == IF t # "7z" THEN LibClose(t, h) ELSE [exc |-> "none", archHandle |-> h]
         IN  IF c.exc # "none" THEN [exc |-> c.exc, archHandle |-> c.archHandle, fp |-> f]
             ELSE [exc |-> "none", archHandle |-> c.archHandle,
                   fp |-> IF f # "none" THEN "closed" ELSE f]

\* ArchiveReader.__del__: close the temporary file (which deletes it), then
\* close() with every Exception swallowed.
DelBody(tf, t, h, f) ==
    LET c == CloseBody(t, h, f)
    IN  [exc        |-> "none",
         tempfile   |-> IF tf # "none" THEN "closed" ELSE tf,
         archHandle |-> c.archHandle,
         fp         |-> c.fp]

\* ----------------------------------------------------------------- actions
\* What an operation returned: nothing, a stream, bytes, a boolean (flag) or a
\* list of names.
RetNone == [kind |-> "None", names |-> <<>>, flag |-> FALSE]

NoGen == [state |-> "none", names |-> <<>>, pos |-> 0, shared |-> FALSE]

Construct ==
    /\ pc = "new"
    /\ LET r == InitBody(arch)
           e == LogErrors(r.exc)
       IN  /\ pc' = IF e = "none" THEN "live" ELSE "failed"
           /\ archPath' = r.archPath
           /\ tempfile' = r.tempfile
           /\ tmpCreated' = tmpCreated + r.created
           /\ tmpExists' = (r.created = 1)
           /\ fp' = r.fp
           /\ archType' = r.archType
           /\ archHandle' = r.archHandle
           /\ usedPath' = r.usedPath
           /\ filenames' = IF r.archHandle = "open" THEN RawNames(arch.members) ELSE <<>>
           /\ raised' = e
    /\ lastOp' = "init"
    /\ arg' = <<>>
    /\ ret' = RetNone
    /\ UNCHANGED << arch, gen, yielded, closes >>

Close ==
    /\ pc = "live"
    /\ closes < MaxCloses
    /\ LET c == CloseBody(archType, archHandle, fp)
       IN  /\ archHandle' = c.archHandle
           /\ fp' = c.fp
           /\ raised' = c.exc
    /\ closes' = closes + 1
    /\ lastOp' = "close"
    /\ arg' = <<>>
    /\ ret' = RetNone
    /\ UNCHANGED << arch, pc, archPath, tempfile, tmpCreated, tmpExists, archType,
                    filenames, usedPath, gen, yielded >>

Del ==
    /\ pc \in {"live", "failed"}
    /\ LET d == DelBody(tempfile, archType, archHandle, fp)
       IN  /\ tempfile' = d.tempfile
           /\ tmpExists' = (tmpExists /\ d.tempfile # "closed")
           /\ archHandle' = d.archHandle
           /\ fp' = d.fp
           /\ raised' = d.exc
    /\ pc' = "dead"
    /\ lastOp' = "del"
    /\ arg' = <<>>
    /\ ret' = RetNone
    /\ UNCHANGED << arch, archPath, tmpCreated, archType, filenames, usedPath, gen,
                    yielded, closes >>

\* ----------------------------------------------------------------- listing
\* ArchiveReader._getZipFileList: names not ending in "/", as a set, sorted.
GetZipFileList(members) ==
    SortedOfSet({ members[i].name : i \in { j \in 1..Len(members) : ~EndsWithSlash(members[j].name) } })

\* ArchiveReader._getRarFileList: the names whose getinfo(name).isdir() is
\* false, in the container's order.
RECURSIVE RarKeep(_, _)
RarKeep(members, names) ==
    IF names = <<>> THEN <<>>
    ELSE (IF Lookup(members, Head(names)).isdir THEN <<>> ELSE << Head(names) >>)
         \o RarKeep(members, Tail(names))

GetRarFileList(members) == RarKeep(members, RawNames(members))

\* ArchiveReader._get7zFileList: what getnames() returns, which is the codec
\* object's own list when the library hands it out (shared), else a copy.
Get7zFileList(names7z) == names7z

\* The list getFileList builds before it sorts it.
FileListOf(t, members, names7z) ==
    CASE t = "rar" -> GetRarFileList(members)
      [] t = "zip" -> GetZipFileList(members)
      [] OTHER     -> Get7zFileList(names7z)

\* ArchiveReader.getFileList, consumed to its end: the names it yields.
GetFileListBody(t, members, names7z) == SortNames(FileListOf(t, members, names7z))

\* ------------------------------------------------------ codec member access
\* archHandle.open(name) of ZipFile and RarFile: the exception, if any.
LibOpen(t, members, name) ==
    IF ~HasMember(members, name)
    THEN (IF t = "zip" THEN "KeyError" ELSE "rarfile.NoRarEntry")
    ELSE IF Lookup(members, name).health = "encrypted"
    THEN (IF t = "zip" THEN "RuntimeError" ELSE "rarfile.PasswordRequired")
    ELSE "none"

\* Reading a member's stream to its end: the exception, if any.  zipfile and
\* rarfile check the checksum at the end of the read; py7zlib's read does not.
LibRead(t, m) ==
    CASE m.health = "ok"  -> "none"
      [] m.health = "crc" ->
            (CASE t = "zip" -> "zipfile.BadZipfile"
               [] t = "rar" -> "rarfile.BadRarFile"
               [] OTHER     -> "none")
      [] m.health = "dataerr" ->
            (CASE t = "zip" -> "zlib.error"
               [] t = "rar" -> "rarfile.BadRarFile"
               [] OTHER     -> "ValueError")
      [] OTHER ->
            (CASE t = "zip" -> "RuntimeError"
               [] t = "rar" -> "rarfile.PasswordRequired"
               [] OTHER     -> "py7zlib.NoPasswordGivenError")

\* ArchiveFile.checkcrc() of py7zlib: reads the member and returns whether the
\* checksum matches; a read that fails raises.
LibCheckCrc(m) ==
    IF LibRead("7z", m) # "none" THEN [exc |-> LibRead("7z", m), flag |-> FALSE]
    ELSE [exc |-> "none", flag |-> (m.health = "ok")]

\* ArchiveReader.open: Archive7z.getmember returns None for an unknown name.
OpenBody(t, members, name) ==
    IF t = "7z"
    THEN [exc |-> "none", kind |-> IF HasMember(members, name) THEN "stream" ELSE "None"]
    ELSE [exc |-> LibOpen(t, members, name), kind |-> "stream"]

\* ArchiveReader.read.
ReadBody(t, members, name) ==
    IF t = "7z"
    THEN IF HasMember(members, name)
         THEN [exc |-> LibRead(t, Lookup(members, name)), kind |-> "bytes"]
         ELSE [exc |-> "AttributeError", kind |-> "bytes"]
    ELSE IF LibOpen(t, members, name) # "none"
         THEN [exc |-> LibOpen(t, members, name), kind |-> "bytes"]
         ELSE [exc |-> LibRead(t, Lookup(members, name)), kind |-> "bytes"]

\* --------------------------------------------------------------- iteration
\* One pair a generator yields: the name, the kind of stream ("buffer": the
\* whole content read into memory, "lazy": the codec's own stream) and the
\* health of the member behind it.
Item(name, stream, m) == [name |-> name, stream |-> stream, health |-> m.health]

NoItem == [name |-> <<>>, stream |-> "none", health |-> "ok"]

\* The body of the loop of _iterRarFiles with the read left to the consumer.
IterRarStepLazy(members, name) ==
    IF LibOpen("rar", members, name) # "none"
    THEN [exc |-> IF LibOpen("rar", members, name) = "rarfile.BadRarFile"
                  THEN "CorruptArchive" ELSE LibOpen("rar", members, name),
          item |-> NoItem]
    ELSE [exc |-> "none",
          item |-> Item(ReplaceBackslash(name), "lazy", Lookup(members, name))]

\* The body of the loop of _iterRarFiles for one name: open, read everything,
\* yield the buffer; rarfile.BadRarFile becomes CorruptArchive.
IterRarStep(members, name) ==
    LET o == LibOpen("rar", members, name)
        r == IF o # "none" THEN o ELSE LibRead("rar", Lookup(members, name))
    IN  IF r # "none"
        THEN [exc |-> IF r = "rarfile.BadRarFile" THEN "CorruptArchive" ELSE r,
              item |-> NoItem]
        ELSE [exc |-> "none",
              item |-> Item(ReplaceBackslash(name), "buffer", Lookup(members, name))]

\* The body of the loop of _iterZipFiles for one name.
IterZipStep(members, name) ==
    LET o == LibOpen("zip", members, name)
    IN  IF o # "none" THEN [exc |-> o, item |-> NoItem]
        ELSE [exc |-> "none", item |-> Item(name, "lazy", Lookup(members, name))]

\* The body of the loop of _iter7zFiles for one name.
Iter7zStep(members, name) ==
    [exc |-> "none", item |-> Item(name, "lazy", Lookup(members, name))]

IterStep(t, members, name) ==
    CASE t = "rar" -> IterRarStep(members, name)
      [] t = "zip" -> IterZipStep(members, name)
      [] OTHER     -> Iter7zStep(members, name)

\* The list a generator of __iter__ walks, made when it first runs.
IterNames(t, members, names7z) ==
    CASE t = "rar" -> GetRarFileList(members)
      [] t = "zip" -> GetZipFileList(members)
      [] OTHER     -> Get7zFileList(names7z)

\* ------------------------------------------------------------ verification
\* The first member, in the container's order, that is not ok.
RECURSIVE FirstBad(_)
FirstBad(members) ==
    IF members = <<>> THEN "ok"
    ELSE IF Head(members).health # "ok" THEN Head(members).health
    ELSE FirstBad(Tail(members))

\* ArchiveReader._verifyZipFiles: testzip() returns the first bad name (None
\* if there is none); it catches BadZipfile only.
VerifyZipFiles(members) ==
    CASE FirstBad(members) = "ok"      -> [exc |-> "none", flag |-> TRUE]
      [] FirstBad(members) = "crc"     -> [exc |-> "none", flag |-> FALSE]
      [] FirstBad(members) = "dataerr" -> [exc |-> "zlib.error", flag |-> FALSE]
      [] OTHER                         -> [exc |-> "RuntimeError", flag |-> FALSE]

\* ArchiveReader._verifyRarFiles: testrar() raises; RarCRCError becomes False.
VerifyRarFiles(members) ==
    CASE FirstBad(members) = "ok"      -> [exc |-> "none", flag |-> TRUE]
      [] FirstBad(members) = "crc"     -> [exc |-> "none", flag |-> FALSE]
      [] FirstBad(members) = "dataerr" -> [exc |-> "rarfile.BadRarFile", flag |-> FALSE]
      [] OTHER                         -> [exc |-> "rarfile.PasswordRequired", flag |-> FALSE]

\* ArchiveReader._verify7zFiles over the names _iter7zFiles walks: checkcrc()
\* is called and its result dropped; ValueError becomes False.
RECURSIVE Verify7zFiles(_, _)
Verify7zFiles(members, names) ==
    IF names = <<>> THEN [exc |-> "none", flag |-> TRUE]
    ELSE LET c == LibCheckCrc(Lookup(members, Head(names)))
         IN  IF c.exc = "ValueError" THEN [exc |-> "none", flag |-> FALSE]
             ELSE IF c.exc # "none" THEN [exc |-> c.exc, flag |-> FALSE]
             ELSE Verify7zFiles(members, Tail(names))

\* ArchiveReader.verify.
VerifyBody(t, members, names7z) ==
    CASE t = "rar" -> VerifyRarFiles(members)
      [] t = "zip" -> VerifyZipFiles(members)
      [] OTHER     -> Verify7zFiles(members, Get7zFileList(names7z))

\* ------------------------------------------------------- reading operations
\* The caller reads only from a Reader it has not closed.
Usable == pc = "live" /\ closes = 0

\* list(reader.getFileList()).  The generator's body runs while the caller
\* consumes it, outside the decorator's try block.  fList.sort() sorts the
\* list it was given: for 7z the codec's own list when that is shared.
GetFileList ==
    /\ Usable
    /\ LET sorted == GetFileListBody(archType, arch.members, filenames)
       IN  /\ ret' = [kind |-> "names", names |-> sorted, flag |-> FALSE]
           /\ filenames' = IF archType = "7z" /\ arch.shared THEN sorted ELSE filenames
    /\ raised' = "none"
    /\ lastOp' = "getFileList"
    /\ arg' = <<>>
    /\ UNCHANGED << arch, pc, archPath, tempfile, tmpCreated, tmpExists, fp, archType,
                    archHandle, usedPath, gen, yielded, closes >>

Open ==
    /\ Usable
    /\ \E name \in Names :
         LET o == OpenBody(archType, arch.members, name)
         IN  /\ raised' = LogErrors(o.exc)
             /\ ret' = IF o.exc = "none" THEN [RetNone EXCEPT !.kind = o.kind] ELSE RetNone
             /\ arg' = name
    /\ lastOp' = "open"
    /\ UNCHANGED << arch, pc, archPath, tempfile, tmpCreated, tmpExists, fp, archType,
                    archHandle, filenames, usedPath, gen, yielded, closes >>

Read ==
    /\ Usable
    /\ \E name \in Names :
         LET o == ReadBody(archType, arch.members, name)
         IN  /\ raised' = LogErrors(o.exc)
             /\ ret' = IF o.exc = "none" THEN [RetNone EXCEPT !.kind = o.kind] ELSE RetNone
             /\ arg' = name
    /\ lastOp' = "read"
    /\ UNCHANGED << arch, pc, archPath, tempfile, tmpCreated, tmpExists, fp, archType,
                    archHandle, filenames, usedPath, gen, yielded, closes >>

Verify ==
    /\ Usable
    /\ LET v == VerifyBody(archType, arch.members, filenames)
       IN  /\ raised' = LogErrors(v.exc)
           /\ ret' = IF v.exc = "none" THEN [RetNone EXCEPT !.kind = "bool", !.flag = v.flag]
                     ELSE RetNone
    /\ lastOp' = "verify"
    /\ arg' = <<>>
    /\ UNCHANGED << arch, pc, archPath, tempfile, tmpCreated, tmpExists, fp, archType,
                    archHandle, filenames, usedPath, gen, yielded, closes >>

\* iter(reader): __iter__ returns a generator; nothing of its body has run.
IterStart ==
    /\ Usable
    /\ gen.state = "none"
    /\ gen' = [NoGen EXCEPT !.state = "created"]
    /\ yielded' = <<>>
    /\ raised' = "none"
    /\ ret' = RetNone
    /\ lastOp' = "iter"
    /\ arg' = <<>>
    /\ UNCHANGED << arch, pc, archPath, tempfile, tmpCreated, tmpExists, fp, archType,
                    archHandle, filenames, usedPath, closes >>

\* next(generator): run the generator to its next yield, its end or an
\* exception.  The generator's body runs here, in the caller's next(), so an
\* exception it does not catch itself reaches the caller as it is.
IterNext ==
    /\ Usable
    /\ gen.state \in {"created", "running"}
    /\ LET first  == gen.state = "created"
           shared == IF first THEN archType = "7z" /\ arch.shared ELSE gen.shared
           names  == IF shared THEN filenames
                     ELSE IF first THEN IterNames(archType, arch.members, filenames)
                     ELSE gen.names
           pos    == gen.pos + 1
       IN  IF pos > Len(names)
           THEN /\ gen' = [state |-> "done", names |-> names, pos |-> gen.pos, shared |-> shared]
                /\ raised' = "none"
                /\ ret' = [RetNone EXCEPT !.kind = "StopIteration"]
                /\ yielded' = yielded
           ELSE LET s == IterStep(archType, arch.members, names[pos])
                IN  IF s.exc # "none"
                    THEN /\ gen' = [state |-> "done", names |-> names, pos |-> pos, shared |-> shared]
                         /\ raised' = s.exc
                         /\ ret' = RetNone
                         /\ yielded' = yielded
                    ELSE /\ gen' = [state |-> "running", names |-> names, pos |-> pos, shared |-> shared]
                         /\ raised' = "none"
                         /\ ret' = [RetNone EXCEPT !.kind = "pair"]
                         /\ yielded' = Append(yielded, s.item)
    /\ lastOp' = "next"
    /\ arg' = <<>>
    /\ UNCHANGED << arch, pc, archPath, tempfile, tmpCreated, tmpExists, fp, archType,
                    archHandle, filenames, usedPath, closes >>

Next ==
    \/ Construct
    \/ Close
    \/ Del
    \/ GetFileList
    \/ Open
    \/ Read
    \/ Verify
    \/ IterStart
    \/ IterNext

\* ---------------------------------------------------------- specifications
Args == {"none", "empty", "given"}

\* The state before the constructor runs, over the environment a.
Start(a) ==
    /\ arch = a
    /\ pc = "new"
    /\ archPath = "none"
    /\ tempfile = "none"
    /\ tmpCreated = 0
    /\ tmpExists = FALSE
    /\ fp = "none"
    /\ archType = "unset"
    /\ archHandle = "unset"
    /\ filenames = <<>>
    /\ usedPath = FALSE
    /\ lastOp = "none"
    /\ arg = <<>>
    /\ raised = "none"
    /\ ret = RetNone
    /\ gen = NoGen
    /\ yielded = <<>>
    /\ closes = 0

TwoGoodMembers ==
    << [name |-> <<98>>, isdir |-> FALSE, health |-> "ok"],
       [name |-> <<97>>, isdir |-> FALSE, health |-> "ok"] >>

\* Every combination of arguments and of what is behind them, over one
\* sound two-member archive.
Init ==
    \E a \in [path : Args, buf : Args, fileKind : Kinds, bufKind : Kinds,
              fileReadable : BOOLEAN, wellFormed : BOOLEAN, shared : {TRUE},
              members : {TwoGoodMembers}] : Start(a)

Spec == Init /\ [][Next]_vars

\* The members a container of format k can hold: a name ending in "/" is a
\* directory entry; a ZIP directory entry is one whose name ends in "/"; the
\* 7z codec object keeps no directory entries.
ListMembers(k) ==
    { m \in [name : Names, isdir : BOOLEAN, health : {"ok"}] :
        /\ EndsWithSlash(m.name) => m.isdir
        /\ k = "zip" => (m.isdir => EndsWithSlash(m.name))
        /\ k = "7z" => ~m.isdir }

\* Well-formed archives of the three formats given by path or by buffer, with
\* every list of members up to MaxMembers, names repeated or not.
InitList ==
    \E k \in {"rar", "zip", "7z"}, b \in {"none", "given"}, sh \in BOOLEAN :
      \E ms \in SeqsUpTo(ListMembers(k), MaxMembers) :
        Start([path |-> "given", buf |-> b, fileKind |-> k, bufKind |-> k,
               fileReadable |-> TRUE, wellFormed |-> TRUE, shared |-> sh,
               members |-> ms])

SpecList == InitList /\ [][Next]_vars

\* Well-formed archives of the three formats whose members are sound, fail
\* their checksum, do not decode or are encrypted.
InitHealth ==
    \E k \in {"rar", "zip", "7z"}, b \in {"none", "given"},
       ms \in SeqsUpTo([name : {<<97>>, <<98>>}, isdir : {FALSE}, health : Healths], MaxMembers) :
        Start([path |-> "given", buf |-> b, fileKind |-> k, bufKind |-> k,
               fileReadable |-> TRUE, wellFormed |-> TRUE, shared |-> TRUE,
               members |-> ms])

SpecHealth == InitHealth /\ [][Next]_vars

\* ------------------------------------------------------------------ claims
\* The exceptions of the Reader's own taxonomy.
Taxonomy == {"NotAnArchive", "CorruptArchive", "PasswordRequired", "ArchiveError"}

\* Process-level interruption signals.
Interrupts == {"KeyboardInterrupt", "SystemExit", "GeneratorExit"}

YieldedNames == [ i \in 1..Len(yielded) |-> yielded[i].name ]

StrictlyAscending(s) == \A i \in 1..(Len(s) - 1) : LexLess(s[i], s[i + 1])

\* C1: on a constructed Reader of any of the three formats, no close() call
\* (the first or a repeated one) and no __del__ after them raises to the
\* caller.
C1_TeardownNeverRaises ==
    (lastOp \in {"close", "del"} /\ archType \in {"rar", "zip", "7z"}) => raised = "none"

\* A Reader closed twice and then destroyed.
C1_Witness ==
    /\ pc = "dead"
    /\ lastOp = "del"
    /\ closes = 2
    /\ archType = "7z"
    /\ fp = "closed"

\* C2: a RAR Reader built from a buffer creates exactly one temporary file,
\* any other construction creates none, and the file no longer exists once
\* the Reader has been closed with close() or destroyed.
C2_TempFileGoneAfterTeardown ==
    /\ (pc # "new" =>
          tmpCreated = IF Truthy(arch.buf) /\ arch.bufKind = "rar" THEN 1 ELSE 0)
    /\ ((closes > 0 \/ pc = "dead") => ~tmpExists)

C4_ListingSortedUniqueNoDirs ==
    (lastOp = "getFileList" /\ raised = "none") =>
      /\ StrictlyAscending(ret.names)
      /\ \A i \in 1..Len(ret.names) : ~EndsWithSlash(ret.names[i])

\* C5: an iteration that ran to its end yielded exactly the names
\* getFileList() yields, in the same order, whatever was called before.
C5_IterationMatchesListing ==
    (lastOp = "next" /\ gen.state = "done" /\ raised = "none") =>
      YieldedNames = GetFileListBody(archType, arch.members, filenames)

\* C6: whatever a public operation raises to the caller is of the Reader's
\* taxonomy, or an interruption signal.
C6_TaxonomyClosed ==
    lastOp \in {"init", "getFileList", "open", "read", "iter", "next", "verify"} =>
      raised \in {"none"} \cup Taxonomy \cup Interrupts

\* C7: verify() on a 7z Reader returns true exactly when every member's
\* checksum check passes.
C7_Verify7zIffAllPass ==
    (lastOp = "verify" /\ archType = "7z" /\ raised = "none") =>
      (ret.flag <=> \A i \in 1..Len(arch.members) : arch.members[i].health = "ok")

\* C8: open(name) and read(name) with a name the archive does not hold fail
\* with an error; neither returns anything.
C8_AbsentNameFails ==
    (lastOp \in {"open", "read"} /\ ~HasMember(arch.members, arg)) => raised # "none"

\* A RAR archive of distinctly named files of which exactly one, the c-th,
\* fails its checksum and the others are sound.
C9_Case(c) ==
    /\ arch.fileKind = "rar"
    /\ c \in 1..Len(arch.members)
    /\ arch.members[c].health = "crc"
    /\ \A i \in 1..Len(arch.members) :
         /\ ~arch.members[i].isdir
         /\ i # c => arch.members[i].health = "ok"
         /\ \A j \in 1..Len(arch.members) : i # j => arch.members[i].name # arch.members[j].name

\* C9: for such an archive construction succeeds; the iteration yields the
\* members before the corrupt one, each as an in-memory buffer, raises
\* CorruptArchive at the step that reaches the corrupt one and at no other,
\* and never yields the corrupt member.
C9_RarCorruptSurfacesAtMember ==
    \A c \in 1..MaxMembers + 1 :
      C9_Case(c) =>
        /\ lastOp = "init" => (raised = "none" /\ pc = "live")
        /\ Len(yielded) < c
        /\ \A i \in 1..Len(yielded) :
             yielded[i] = [name   |-> ReplaceBackslash(arch.members[i].name),
                           stream |-> "buffer",
                           health |-> "ok"]
        /\ lastOp = "next" =>
             /\ (raised = "CorruptArchive") <=> (gen.pos = c)
             /\ gen.pos < c => (raised = "none" /\ Len(yielded) = gen.pos)
             /\ gen.pos = c => (gen.state = "done" /\ Len(yielded) = c - 1)

\* The iteration has yielded the sound first member and raised CorruptArchive
\* at the corrupt second one.
C9_Witness ==
    /\ C9_Case(2)
    /\ lastOp = "next"
    /\ raised = "CorruptArchive"
    /\ Len(yielded) = 1
    /\ yielded[1].stream = "buffer"

\* C10: once teardown has run (close() or __del__), the raw file handle the
\* constructor opened is not open, also when construction failed.
C10_RawHandleClosedAfterTeardown ==
    (closes > 0 \/ pc = "dead") => fp # "open"

====
